---- MODULE Spec2Model ----
(***************************************************************************)
(* The frame loop of "Hill Climb" (src/Hill Climb/main.cpp): keyboard      *)
(* input, one fixed physics step, the particle pool, the floating score    *)
(* popups, the player/box proximity test with its rising-edge score, the   *)
(* box animation, the fall reset and the render, in the order of main().   *)
(*                                                                         *)
(* Units.  Time is counted in ticks of 1/60 s (the timeStep of main), so   *)
(* 0.5 s = 30 ticks.  Lengths are counted in 1/360 m, which makes the      *)
(* particle gravity of 10 m/s^2 exactly 1 unit per tick per tick.  The     *)
(* player's velocity is counted in 0.005 m/s, so the grounded threshold    *)
(* 0.01 m/s is 2.  Particle sizes are counted in 1/45000 m, the common     *)
(* denominator of the shrink formula.  All arithmetic is exact on these    *)
(* grids.                                                                  *)
(*                                                                         *)
(* Box2D, GLFW and OpenGL are external: b2World_Step yields any body       *)
(* state of a sampled set, glfwGetKey any set of held keys, glfwGetTime    *)
(* any frame delta of a sampled set, rand() any value of a sampled set.    *)
(***************************************************************************)
EXTENDS Integers, Sequences, FiniteSets, TLC

\* ------------------------------------------------------------------ units
\* ticks per second: one tick is the fixed timestep 1/60 s
Second == 60
\* length units per metre
Meter == 6 * Second
\* player velocity units per m/s (0.005 m/s each)
VelPerMps == 2 * 100
\* particle size units per metre
SizePerMeter == 125 * Meter

Abs(n) == IF n < 0 THEN -n ELSE n

Vec(a, b) == [x |-> a, y |-> b]

\* ----------------------------------------------------------------- bounds
\* rising edges after which the window is closed
MaxScoreEvents == 2
\* spawn_explosion calls the X key may trigger in the frame loop
MaxBursts == 1
\* animation clock (in quarter seconds) after which the window is closed
MaxAnimQuarters == 4
\* spawn_explosion calls in the pool-only specification
MaxPoolBursts == 7
MaxLifeBursts == 3
\* spawn_explosion calls in the input-only specification
MaxKeyBursts == 3

\* frame deltas glfwGetTime may yield, in ticks
DeltaTimes == {0, 30}

\* ------------------------------------------------------ program constants
MAX_PARTICLES == 100
\* g_particleSize = 0.2 m
g_particleSize == SizePerMeter \div 5
\* 10 + rand() % 6
MinBurst == 10
BurstSpread == 6
\* timeStep = 1/60 s
timeStep == Second \div 60
\* sub-step count handed to b2World_Step
SubSteps == 8
\* jumpImpulse (N s) and moveForce (N) of process_input
jumpImpulse == 6
moveForce == 20
\* mass of the player: density 1 on the 2 m x 2 m box of b2MakeBox(1, 1)
playerMass == 4
\* fabs(vel.y) < 0.01f
GroundedThreshold == VelPerMps \div 100
\* ppos.y < -20.0f
FallThreshold == -20 * Meter
\* spawn transform {0, 10}
SpawnPos == Vec(0, 10 * Meter)
\* popup life and duration 1.5 s, rise speed 40 px/s, score step 10
PopupDuration == (3 * Second) \div 2
ScoreStep == 10
\* pixels are counted in thirds, so the rise of 40 px/s is 2 per tick
PIXELS_PER_METER == 50
WINDOW_WIDTH == 800
WINDOW_HEIGHT == 600

g_boxColor == <<2, 5, 8>>
g_yellowColor == <<10, 10, 0>>
g_groundColor == <<4, 6, 3>>

Keys == {"LEFT", "RIGHT", "SPACE", "R", "X"}

\* ------------------------------------------------------------------- AABB
\* getAABBWithProximity: the box around a body position, inflated
getAABBWithProximity(pos, halfW, halfH, proximity) ==
    [minX |-> pos.x - halfW - proximity,
     minY |-> pos.y - halfH - proximity,
     maxX |-> pos.x + halfW + proximity,
     maxY |-> pos.y + halfH + proximity]

\* a plausible slip: the test for "a right of b" is forgotten
aabbOverlap_NoRightTest(a, b) ==
    ~(a.maxX < b.minX \/ a.maxY < b.minY \/ a.minY > b.maxY)

\* a plausible slip: non-strict comparisons, so touching boxes are disjoint
aabbOverlap_NonStrict(a, b) ==
    ~(a.maxX <= b.minX \/ a.minX >= b.maxX \/ a.maxY <= b.minY \/ a.minY >= b.maxY)

aabbOverlap(a, b) ==
    ~(a.maxX < b.minX \/ a.minX > b.maxX \/ a.maxY < b.minY \/ a.minY > b.maxY)

\* the loop's two boxes: player half 1 m with 1 m proximity, box half 0.5 m
PlayerAABB(pos) == getAABBWithProximity(pos, Meter, Meter, Meter)
BoxAABB(pos) == getAABBWithProximity(pos, Meter \div 2, Meter \div 2, 0)

\* ------------------------------------------------------------- particles
\* the kill test of update_particles
ParticleDead_Strict(life) == life < 0

ParticleDead(life) == life <= 0

\* size assigned to a live particle:
\*   g_particleSize * (life / 0.5) * (0.7 + 0.3 * (life / 0.5))
\* with h = Second / 2 this is g_particleSize * life * (7 h + 3 life) / (10 h^2)
\* a plausible slip: the sign inside the second factor
ParticleSize_SignSlip(life) ==
    LET h == Second \div 2
    IN  (g_particleSize * life * (7 * h - 3 * life)) \div (10 * h * h)

ParticleSize(life) ==
    LET h == Second \div 2
    IN  (g_particleSize * life * (7 * h + 3 * life)) \div (10 * h * h)

\* the loop guard "particles.size() < MAX_PARTICLES"
PoolHasRoom_OffByOne(n) == n <= MAX_PARTICLES

PoolHasRoom(n) == n < MAX_PARTICLES

\* The values rand() yields in one spawn_explosion call.  count is rand() % 6;
\* a and b are two fractions rand() / RAND_MAX, in halves; particles take
\* them alternately, so one burst holds particles of different life.
Fractions == {0, 1, 2}
AxisDirs == <<Vec(1, 0), Vec(0, 1), Vec(-1, 0), Vec(0, -1)>>

NewParticle(position, draw, i) ==
    LET f == IF i % 2 = 1 THEN draw.a ELSE draw.b
        g == IF i % 2 = 1 THEN draw.b ELSE draw.a
        dir == AxisDirs[((i + draw.a) % 4) + 1]
        \* speed 2 + 3 g m/s, in length units per tick
        speed == (2 * Meter) \div Second + (3 * g * Meter) \div (2 * Second)
    IN  [position |-> position,
         velocity |-> Vec(dir.x * speed, dir.y * speed),
         \* 0.5 + 0.5 f seconds
         life |-> Second \div 2 + (f * Second) \div 4,
         \* g_particleSize * (0.7 + 0.6 g)
         size |-> (g_particleSize * (7 + 3 * g)) \div 10,
         \* observations: the life it was given, the deltas applied to it,
         \* and whether update_particles has sized it yet
         born |-> Second \div 2 + (f * Second) \div 4,
         age |-> 0,
         fresh |-> TRUE]

\* a full pool making room by evicting its oldest particle
RECURSIVE SpawnLoop_Evicting(_, _, _, _, _)
SpawnLoop_Evicting(pool, position, draw, i, numParticles) ==
    IF i < numParticles
    THEN SpawnLoop_Evicting(
             Append(IF PoolHasRoom(Len(pool)) THEN pool ELSE Tail(pool),
                    NewParticle(position, draw, i)),
             position, draw, i + 1, numParticles)
    ELSE pool

RECURSIVE SpawnLoop(_, _, _, _, _)
SpawnLoop(pool, position, draw, i, numParticles) ==
    IF i < numParticles /\ PoolHasRoom(Len(pool))
    THEN SpawnLoop(Append(pool, NewParticle(position, draw, i)),
                   position, draw, i + 1, numParticles)
    ELSE pool

spawn_explosion(pool, position, draw) ==
    SpawnLoop(pool, position, draw, 0, MinBurst + draw.count)

UpdateOne(p, dt) ==
    [p EXCEPT !.position = Vec(p.position.x + p.velocity.x * dt,
                               p.position.y + p.velocity.y * dt),
              \* gravity 10 m/s^2 is 1 length unit per tick per tick
              !.velocity = Vec(p.velocity.x,
                               p.velocity.y - ((10 * Meter) \div (Second * Second)) * dt),
              !.size = ParticleSize(p.life),
              !.age = @ + dt,
              !.fresh = FALSE]

update_particles(pool, dt) ==
    LET aged == [i \in 1..Len(pool) |-> [pool[i] EXCEPT !.life = @ - dt]]
        kept == SelectSeq(aged, LAMBDA p : ~ParticleDead(p.life))
    IN  [i \in 1..Len(kept) |-> UpdateOne(kept[i], dt)]

\* ------------------------------------------------------------------ text
\* The characters of the ASCII range 0..127 that the program's texts are made
\* of: "Score:", "+" and the decimal digits (lines 662, 895).
DigitChars == <<"0", "1", "2", "3", "4", "5", "6", "7", "8", "9">>
GlyphChars == <<"S", "c", "o", "r", "e", ":", "+">> \o DigitChars

\* std::to_string of a non-negative int (lines 662, 895)
RECURSIVE to_string(_)
to_string(n) ==
    IF n < Len(DigitChars)
    THEN <<DigitChars[n + 1]>>
    ELSE to_string(n \div Len(DigitChars))
         \o <<DigitChars[(n % Len(DigitChars)) + 1]>>

\* "Score:" + std::to_string(currentScore) (line 895)
ScoreText(score) == <<"S", "c", "o", "r", "e", ":">> \o to_string(score)

\* the Character stored for a loaded glyph (lines 546-576); of its fields
\* only the texture name is kept, a non-zero name given by glGenTextures
LoadedCharacter(ch) ==
    [textureID |-> CHOOSE i \in 1..Len(GlyphChars) : GlyphChars[i] = ch]

\* the Character that std::map::operator[] value-initialises (line 624)
DefaultCharacter == [textureID |-> 0]

\* the glyph table init_font_rendering leaves when the glyphs in loaded
\* were stored (lines 537-577)
FontTable(loaded) == [ch \in loaded |-> LoadedCharacter(ch)]

AllGlyphs == { GlyphChars[i] : i \in 1..Len(GlyphChars) }

\* every glyph loaded
LoadedFont == FontTable(AllGlyphs)

\* no font file could be opened and the table stayed empty (lines 525-529),
\* or FT_Load_Char failed for one glyph, which was skipped (lines 540-543)
FailedFonts == { FontTable({}), FontTable(AllGlyphs \ {"0"}) }

\* characters[ch] (line 624): a missing key is inserted with a default value
Lookup(table, ch) ==
    IF ch \in DOMAIN table
    THEN table
    ELSE [c \in DOMAIN table \cup {ch} |->
             IF c = ch THEN DefaultCharacter ELSE table[c]]

\* one run of the draw lambda over text from index i (lines 617-647); st
\* holds the glyph table and the glDrawArrays calls issued so far
RECURSIVE DrawPass(_, _, _)
DrawPass(st, text, i) ==
    IF i > Len(text)
    THEN st
    ELSE LET table == Lookup(st.characters, text[i])
             chdata == table[text[i]]
         IN  DrawPass([characters |-> table,
                       draws |-> Append(st.draws,
                                        [ch |-> text[i],
                                         textureID |-> chdata.textureID])],
                      text, i + 1)

\* render_text: the shadow pass, then the main pass (lines 605-657)
render_text(st, text) == DrawPass(DrawPass(st, text, 1), text, 1)

\* render_score_popups and the score line (lines 688-696, 895-896)
RECURSIVE RenderTexts(_, _, _)
RenderTexts(st, texts, i) ==
    IF i > Len(texts)
    THEN st
    ELSE RenderTexts(render_text(st, texts[i]), texts, i + 1)

\* ----------------------------------------------------------- score popups
PopupDead_Strict(life) == life < 0

PopupDead(life) == life <= 0

ToPixels(pos) ==
    Vec((pos.x * PIXELS_PER_METER * 3) \div Meter + (WINDOW_WIDTH * 3) \div 2,
        (pos.y * PIXELS_PER_METER * 3) \div Meter + (WINDOW_HEIGHT * 3) \div 2)

NewPopup_ShortLife(points, position) ==
    [text |-> <<"+">> \o to_string(points), position |-> ToPixels(position),
     life |-> PopupDuration - Second \div 2, duration |-> PopupDuration]

NewPopup(points, position) ==
    [text |-> <<"+">> \o to_string(points), position |-> ToPixels(position),
     life |-> PopupDuration, duration |-> PopupDuration]

spawn_score_popup(texts, points, position) ==
    Append(texts, NewPopup(points, position))

update_score_popups(texts, dt) ==
    LET aged == [i \in 1..Len(texts) |-> [texts[i] EXCEPT !.life = @ - dt]]
        kept == SelectSeq(aged, LAMBDA t : ~PopupDead(t.life))
    IN  \* rise speed 40 px/s: 2 thirds of a pixel per tick
        [i \in 1..Len(kept) |->
            [kept[i] EXCEPT !.position =
                Vec(@.x, @.y + ((40 * 3) \div Second) * dt)]]

\* -------------------------------------------------------------- animation
\* 1000 * sin(5 t) for t a multiple of a quarter second
SinMilli == <<0, 949, 598, -572, -959, -33, 938, 625, -544, -968, -66, 926,
              650, -516, -976, -99, 913, 675, -487, -982, -132, 899, 699, -458>>

\* the clock left running when the player moves away
update_box_animation_NoRestart(ud, dt, isPlayerNear) ==
    IF isPlayerNear
    THEN LET t == ud.animationTime + dt
         IN  [ud EXCEPT !.isAnimating = TRUE,
                        !.animationTime = t,
                        !.animationScale =
                            10000 + SinMilli[(t * 4) \div Second + 1]]
    ELSE [ud EXCEPT !.isAnimating = FALSE,
                    !.animationScale = 10000]

\* update_box_animation; animationScale is counted in 1/10000
update_box_animation(ud, dt, isPlayerNear) ==
    IF isPlayerNear
    THEN LET t == ud.animationTime + dt
         IN  [ud EXCEPT !.isAnimating = TRUE,
                        !.animationTime = t,
                        !.animationScale =
                            10000 + SinMilli[(t * 4) \div Second + 1]]
    ELSE [ud EXCEPT !.isAnimating = FALSE,
                    !.animationTime = 0,
                    !.animationScale = 10000]

\* ------------------------------------------------------------------ input
\* the gate of the jump impulse: fabs(vel.y) < 0.01f
JumpAllowed_NoFabs(vy) == vy < GroundedThreshold

JumpAllowed(vy) == Abs(vy) < GroundedThreshold

\* a burst in every iteration that finds the X key down
ExplosionEdge_Level(down, pressed) == down

\* the gate of spawn_explosion: X is down and xKeyPressed is not set
\* (lines 334-335)
ExplosionEdge(down, pressed) == down /\ ~pressed

\* b2Body_ApplyLinearImpulseToCenter(player, {0, jumpImpulse}): dv = J / m
ApplyJump(body) ==
    [body EXCEPT !.vel = Vec(@.x, @.y + (jumpImpulse * VelPerMps) \div playerMass)]

\* b2Body_SetTransform(player, {0, 10}, b2MakeRot(0)) and
\* b2Body_SetLinearVelocity(player, {0, 0})
ResetBody_KeepVelocity(body) == [body EXCEPT !.pos = SpawnPos, !.rot = 0]

ResetBody(body) == [pos |-> SpawnPos, vel |-> Vec(0, 0), rot |-> 0]

\* the fall test: ppos.y < -20.0f
FellOut_AtOrBelow(y) == y <= FallThreshold

FellOut(y) == y < FallThreshold

\* the scoring test inside "if (isPlayerNear)": if (!wasPlayerNear)
ScoreEdge_EveryFrame(isPlayerNear, was) == isPlayerNear

ScoreEdge(isPlayerNear, was) == isPlayerNear /\ ~was

\* the arguments of b2World_Step(g_world, timeStep, 8)
StepArgs_FrameDelta(dt) == <<dt, SubSteps>>

StepArgs(dt) == <<timeStep, SubSteps>>

\* ------------------------------------------------------- the frame's order
\* the statements of one loop iteration, in the order main() runs them
Order_AsSpecified ==
    <<"input", "step", "collide", "animate", "particles", "popups",
      "fallreset", "render">>

Order ==
    <<"input", "step", "particles", "popups", "collide", "animate",
      "fallreset", "render">>

IndexOf(seq, e) == CHOOSE i \in 1..Len(seq) : seq[i] = e

\* the statement after p; after the last one, the loop test
After(p) ==
    LET i == IndexOf(Order, p)
    IN  IF i = Len(Order) THEN "loop" ELSE Order[i + 1]

\* ------------------------------------------------- what b2World_Step yields
\* Sampled states of the player body after a step: at the spawn point;
\* touching the proximity box on X, and just outside it; fallen to exactly
\* -20 m, and to -25 m.  The box starts at (2, 6) and rests at (2, -4.4).
BoxRest == Vec(2 * Meter, (-44 * Meter) \div 10)
BoxStart == Vec(2 * Meter, 6 * Meter)
Near == (5 * Meter) \div 2
Eps == Meter \div 30

PlayerSamples ==
    { [pos |-> SpawnPos, vel |-> Vec(0, 0), rot |-> 0],
      [pos |-> Vec(BoxRest.x + Near, BoxRest.y + Meter \div 2),
       vel |-> Vec(0, 1), rot |-> 0],
      [pos |-> Vec(BoxRest.x + Near + Eps, BoxRest.y + Meter \div 2),
       vel |-> Vec(60, GroundedThreshold), rot |-> 0],
      [pos |-> Vec(0, FallThreshold), vel |-> Vec(0, -GroundedThreshold),
       rot |-> 0],
      [pos |-> Vec(0, -25 * Meter), vel |-> Vec(-40, -4000), rot |-> 1] }

BoxSamples ==
    { [pos |-> BoxRest, vel |-> Vec(0, 0), rot |-> 0] }

\* what rand() yields for one burst in the frame loop
LoopDraws == { [count |-> BurstSpread - 1, a |-> 0, b |-> 2] }

\* ---------------------------------------------------------------- memory
\* The glm::vec3 objects main reads and writes: three of the global colours
\* (lines 54-56) and the copy the box owns (line 775). A UserData's color
\* field holds the name of one of them.
ColorCells == {"g_boxColor", "g_yellowColor", "g_groundColor", "boxColor"}

InitColors ==
    [c \in ColorCells |->
        CASE c = "g_boxColor" -> g_boxColor
          [] c = "g_yellowColor" -> g_yellowColor
          [] c = "g_groundColor" -> g_groundColor
          [] c = "boxColor" -> g_boxColor]

\* the box pointing at the global, as the ground does with its colour
BoxColorCell_Shared == "g_boxColor"

\* boxUD->color: new glm::vec3(g_boxColor) (line 775)
BoxColorCell == "boxColor"

\* groundUD->color: &g_groundColor (line 753)
GroundColorCell == "g_groundColor"

\* the objects whose lifetime main could end
Allocs == {"playerUD", "boxUD", "groundUD", "g_world"} \cup ColorCells

\* frees: how often each object was deleted or destroyed; stale: the objects
\* that were read, written or deleted when already freed
NewHeap == [frees |-> [a \in Allocs |-> 0], stale |-> {}]

Touch(h, objs) == [h EXCEPT !.stale = @ \cup { o \in objs : h.frees[o] > 0 }]

Free(h, o) == [Touch(h, {o}) EXCEPT !.frees[o] = @ + 1]

\* the box record deleted before its colour is
CleanupOps_BoxFirst(color) ==
    << [op |-> "delete", obj |-> "playerUD"],
       [op |-> "delete", obj |-> "boxUD"],
       [op |-> "read", obj |-> "boxUD"],
       [op |-> "delete", obj |-> color],
       [op |-> "delete", obj |-> "groundUD"],
       [op |-> "delete", obj |-> "g_world"] >>

\* delete playerUD; delete boxUD->color; delete boxUD; delete groundUD;
\* b2DestroyWorld(g_world) (lines 903-906, 924); color is boxUD->color
CleanupOps(color) ==
    << [op |-> "delete", obj |-> "playerUD"],
       [op |-> "read", obj |-> "boxUD"],
       [op |-> "delete", obj |-> color],
       [op |-> "delete", obj |-> "boxUD"],
       [op |-> "delete", obj |-> "groundUD"],
       [op |-> "delete", obj |-> "g_world"] >>

RECURSIVE RunOps(_, _, _)
RunOps(h, ops, i) ==
    IF i > Len(ops)
    THEN h
    ELSE RunOps(IF ops[i].op = "delete" THEN Free(h, ops[i].obj)
                                        ELSE Touch(h, {ops[i].obj}),
                ops, i + 1)

\* ------------------------------------------------------------------ state
VARIABLES
    pc,             \* the statement of main() about to run
    shouldClose,    \* glfwWindowShouldClose(win)
    deltaTime,      \* currentTime - lastTime of this iteration
    player,         \* the player body: pos, vel, rot
    box,            \* the box body
    force,          \* force on the player accumulated for the next step (x)
    particles,      \* std::vector<Particle> particles
    floatingTexts,  \* std::vector<FloatingText> floatingTexts
    currentScore,   \* int currentScore
    wasPlayerNear,  \* bool wasPlayerNear
    isPlayerNear,   \* the loop's local isPlayerNear
    xKeyPressed,    \* the static xKeyPressed of process_input
    boxUD,          \* *boxUD: color (a pointer), isAnimating, animationTime, animationScale
    characters,     \* std::map<char, Character> characters
    colorMem,       \* the value of each glm::vec3 object
    heap,           \* which objects were freed, and accesses to freed ones
    explosions,     \* spawn_explosion calls so far
    dropped,        \* particles of the latest burst the full pool refused
    \* observations of the run, read by the properties only
    keysHeld,       \* the keys glfwGetKey reported down in this iteration
    xKey,           \* X in the latest iteration: down, down in the one before
                    \* too, and the bursts of the present hold
    jump,           \* the velocity read and whether the impulse was applied
    stepLog,        \* the b2World_Step calls of this iteration, with arguments
    trace,          \* the statements run so far in this iteration
    stepped,        \* the player body as the step of this iteration left it
    overlap,        \* the overlap result of the previous and of the latest test
    gain,           \* score added and popups spawned by the latest test
    risingEdges,    \* rising edges of the overlap test so far
    frame,          \* what the latest render drew
    probe           \* two boxes and the results of aabbOverlap on them

vars == <<pc, shouldClose, deltaTime, player, box, force, particles,
          floatingTexts, currentScore, wasPlayerNear, isPlayerNear,
          xKeyPressed, boxUD, explosions, dropped, keysHeld, jump, stepLog,
          trace, stepped, overlap, gain, risingEdges, frame, probe,
          characters, colorMem, heap, xKey>>

NoJump == [read |-> 0, applied |-> FALSE]
NoKey == [down |-> FALSE, again |-> FALSE, bursts |-> 0]
NoFrame == [drawn |-> FALSE]
NoProbe == [set |-> FALSE]

\* the state when the loop is first reached (main, lines 743-790)
InitAt(start) ==
    /\ pc = start
    /\ shouldClose = FALSE
    /\ deltaTime = 0
    /\ player = [pos |-> SpawnPos, vel |-> Vec(0, 0), rot |-> 0]
    /\ box = [pos |-> BoxStart, vel |-> Vec(0, 0), rot |-> 0]
    /\ force = 0
    /\ particles = <<>>
    /\ floatingTexts = <<>>
    /\ currentScore = 0
    /\ wasPlayerNear = FALSE
    /\ isPlayerNear = FALSE
    /\ xKeyPressed = FALSE
    /\ boxUD = [color |-> BoxColorCell, isAnimating |-> FALSE,
                animationTime |-> 0, animationScale |-> 10000]
    /\ colorMem = InitColors
    /\ heap = NewHeap
    /\ explosions = 0
    /\ dropped = 0
    /\ keysHeld = {}
    /\ xKey = NoKey
    /\ jump = NoJump
    /\ stepLog = <<>>
    /\ trace = <<>>
    /\ stepped = player
    /\ overlap = [prev |-> FALSE, cur |-> FALSE]
    /\ gain = [score |-> 0, popups |-> 0]
    /\ risingEdges = 0
    /\ frame = NoFrame

\* a font was found and every glyph was stored (lines 515-577)
InitGame == InitAt("loop")

Init == InitGame /\ probe = NoProbe /\ characters = LoadedFont

\* ---------------------------------------------------------------- actions
\* while (!glfwWindowShouldClose(win)) and the frame delta (lines 792-796)
LoopTest ==
    /\ pc = "loop"
    /\ IF shouldClose
       THEN /\ pc' = "cleanup"
            /\ UNCHANGED <<deltaTime, keysHeld, jump, stepLog, trace, frame>>
       ELSE /\ pc' = Order[1]
            /\ deltaTime' \in DeltaTimes
            /\ keysHeld' = {}
            /\ jump' = NoJump
            /\ stepLog' = <<>>
            /\ trace' = <<>>
            /\ frame' = NoFrame
    /\ UNCHANGED <<shouldClose, player, box, force, particles, floatingTexts,
                   currentScore, wasPlayerNear, isPlayerNear, xKeyPressed,
                   boxUD, explosions, dropped, stepped, overlap, gain,
                   risingEdges, probe, characters, colorMem, heap, xKey>>

\* process_input (lines 319-344), with at most cap bursts in a run
InputWith(cap) ==
    /\ pc = "input"
    /\ \E k \in SUBSET Keys, draw \in LoopDraws :
        LET applied == "SPACE" \in k /\ JumpAllowed(player.vel.y)
            jumped == IF applied THEN ApplyJump(player) ELSE player
            reset == IF "R" \in k THEN ResetBody(jumped) ELSE jumped
            burst == ExplosionEdge("X" \in k, xKeyPressed)
        IN  /\ burst => explosions < cap
            /\ force' = force
                        + (IF "LEFT" \in k THEN -moveForce ELSE 0)
                        + (IF "RIGHT" \in k THEN moveForce ELSE 0)
            /\ player' = reset
            /\ particles' = IF burst
                            THEN spawn_explosion(particles, reset.pos, draw)
                            ELSE particles
            /\ explosions' = IF burst THEN explosions + 1 ELSE explosions
            /\ dropped' = IF burst
                          THEN MinBurst + draw.count
                               - (Len(particles') - Len(particles))
                          ELSE dropped
            /\ xKeyPressed' = ("X" \in k)
            /\ xKey' = IF "X" \in k
                       THEN [down |-> TRUE,
                             again |-> xKey.down,
                             bursts |-> (IF xKey.down THEN xKey.bursts ELSE 0)
                                        + (IF burst THEN 1 ELSE 0)]
                       ELSE NoKey
            /\ keysHeld' = k
            /\ jump' = [read |-> player.vel.y, applied |-> applied]
    /\ heap' = Touch(heap, {"g_world"})
    /\ pc' = After("input")
    /\ trace' = Append(trace, "input")
    /\ UNCHANGED <<shouldClose, deltaTime, box, floatingTexts, currentScore,
                   wasPlayerNear, isPlayerNear, boxUD, stepLog, stepped,
                   overlap, gain, risingEdges, frame, probe, characters,
                   colorMem>>

ProcessInput == InputWith(MaxBursts)

\* b2World_Step(g_world, timeStep, 8) (line 799)
WorldStep ==
    /\ pc = "step"
    /\ stepLog' = Append(stepLog, StepArgs(deltaTime))
    /\ player' \in PlayerSamples
    /\ box' \in BoxSamples
    /\ force' = 0
    /\ stepped' = player'
    /\ keysHeld' = {}
    /\ jump' = NoJump
    /\ heap' = Touch(heap, {"g_world"})
    /\ pc' = After("step")
    /\ trace' = Append(trace, "step")
    /\ UNCHANGED <<shouldClose, deltaTime, particles, floatingTexts,
                   currentScore, wasPlayerNear, isPlayerNear, xKeyPressed,
                   boxUD, explosions, dropped, overlap, gain, risingEdges, frame,
                   probe, characters, colorMem, xKey>>

\* update_particles(deltaTime) (line 802)
UpdateParticles ==
    /\ pc = "particles"
    /\ particles' = update_particles(particles, deltaTime)
    /\ pc' = After("particles")
    /\ trace' = Append(trace, "particles")
    /\ UNCHANGED <<shouldClose, deltaTime, player, box, force, floatingTexts,
                   currentScore, wasPlayerNear, isPlayerNear, xKeyPressed,
                   boxUD, explosions, dropped, keysHeld, jump, stepLog, stepped,
                   overlap, gain, risingEdges, frame, probe, characters,
                   colorMem, heap, xKey>>

\* update_score_popups(deltaTime) (line 806)
UpdateScorePopups ==
    /\ pc = "popups"
    /\ floatingTexts' = update_score_popups(floatingTexts, deltaTime)
    /\ pc' = After("popups")
    /\ trace' = Append(trace, "popups")
    /\ UNCHANGED <<shouldClose, deltaTime, player, box, force, particles,
                   currentScore, wasPlayerNear, isPlayerNear, xKeyPressed,
                   boxUD, explosions, dropped, keysHeld, jump, stepLog, stepped,
                   overlap, gain, risingEdges, frame, probe, characters,
                   colorMem, heap, xKey>>

\* the proximity test and the score (lines 808-828)
Collide ==
    /\ pc = "collide"
    /\ LET near == aabbOverlap(PlayerAABB(player.pos), BoxAABB(box.pos))
           edge == ScoreEdge(near, wasPlayerNear)
           reset == [colorMem EXCEPT ![boxUD.color] = colorMem["g_boxColor"]]
       IN  /\ isPlayerNear' = near
           /\ colorMem' = IF near
                          THEN [reset EXCEPT ![boxUD.color] =
                                                reset["g_yellowColor"]]
                          ELSE reset
           /\ heap' = Touch(heap, {"g_world", "boxUD", boxUD.color,
                                   "g_boxColor", "g_yellowColor"})
           /\ currentScore' = IF edge THEN currentScore + ScoreStep
                                      ELSE currentScore
           /\ floatingTexts' =
                IF edge
                THEN spawn_score_popup(floatingTexts, ScoreStep,
                                       Vec(box.pos.x, box.pos.y + Meter))
                ELSE floatingTexts
           /\ wasPlayerNear' = near
           /\ overlap' = [prev |-> overlap.cur, cur |-> near]
           /\ gain' = [score |-> currentScore' - currentScore,
                       popups |-> Len(floatingTexts') - Len(floatingTexts)]
           /\ risingEdges' = IF near /\ ~overlap.cur THEN risingEdges + 1
                                                     ELSE risingEdges
    /\ pc' = After("collide")
    /\ trace' = Append(trace, "collide")
    /\ UNCHANGED <<shouldClose, deltaTime, player, box, force, particles,
                   xKeyPressed, explosions, dropped, keysHeld, jump, stepLog, stepped,
                   frame, probe, characters, boxUD, xKey>>

\* update_box_animation(boxUD, deltaTime, isPlayerNear) (line 831)
Animate ==
    /\ pc = "animate"
    /\ boxUD' = update_box_animation(boxUD, deltaTime, isPlayerNear)
    /\ heap' = Touch(heap, {"boxUD"})
    /\ pc' = After("animate")
    /\ trace' = Append(trace, "animate")
    /\ UNCHANGED <<shouldClose, deltaTime, player, box, force, particles,
                   floatingTexts, currentScore, wasPlayerNear, isPlayerNear,
                   xKeyPressed, explosions, dropped, keysHeld, jump, stepLog, stepped,
                   overlap, gain, risingEdges, frame, probe, characters,
                   colorMem, xKey>>

\* the auto reset of a fallen player (lines 834-838)
FallReset ==
    /\ pc = "fallreset"
    /\ player' = IF FellOut(player.pos.y) THEN ResetBody(player) ELSE player
    /\ heap' = Touch(heap, {"g_world"})
    /\ pc' = After("fallreset")
    /\ trace' = Append(trace, "fallreset")
    /\ UNCHANGED <<shouldClose, deltaTime, box, force, particles,
                   floatingTexts, currentScore, wasPlayerNear, isPlayerNear,
                   xKeyPressed, boxUD, explosions, dropped, keysHeld, jump, stepLog,
                   stepped, overlap, gain, risingEdges, frame, probe,
                   characters, colorMem, xKey>>

\* the window is closed once a bound of the model is reached
MustClose ==
    \/ currentScore >= MaxScoreEvents * ScoreStep
    \/ boxUD.animationTime * 4 >= MaxAnimQuarters * Second

\* the draws, glfwSwapBuffers and glfwPollEvents (lines 841-899)
Render ==
    /\ pc = "render"
    /\ LET texts == [i \in 1..Len(floatingTexts) |-> floatingTexts[i].text]
                    \o <<ScoreText(currentScore)>>
           drawn == RenderTexts([characters |-> characters, draws |-> <<>>],
                                texts, 1)
       IN  /\ characters' = drawn.characters
           /\ frame' = [drawn |-> TRUE,
                       after |-> trace,
                       tint |-> colorMem[boxUD.color],
                       groundTint |-> colorMem[GroundColorCell],
                       boxScale |-> boxUD.animationScale,
                       particles |-> [i \in 1..Len(particles) |->
                                         [life |-> particles[i].life,
                                          size |-> particles[i].size]],
                       texts |-> [i \in 1..Len(floatingTexts) |->
                                     [life |-> floatingTexts[i].life,
                                      duration |-> floatingTexts[i].duration]],
                       score |-> currentScore,
                       table |-> characters,
                       glyphDraws |-> drawn.draws]
    /\ shouldClose' \in IF MustClose THEN {TRUE} ELSE BOOLEAN
    /\ heap' = Touch(heap, {"g_world", "groundUD", GroundColorCell,
                            "playerUD", "boxUD", boxUD.color})
    /\ pc' = After("render")
    /\ trace' = Append(trace, "render")
    /\ UNCHANGED <<deltaTime, player, box, force, particles, floatingTexts,
                   currentScore, wasPlayerNear, isPlayerNear, xKeyPressed,
                   boxUD, explosions, dropped, keysHeld, jump, stepLog, stepped,
                   overlap, gain, risingEdges, probe, colorMem, xKey>>

\* the teardown after the loop (lines 902-926)
Cleanup ==
    /\ pc = "cleanup"
    /\ heap' = RunOps(heap, CleanupOps(boxUD.color), 1)
    /\ pc' = "done"
    /\ UNCHANGED <<shouldClose, deltaTime, player, box, force, particles,
                   floatingTexts, currentScore, wasPlayerNear, isPlayerNear,
                   xKeyPressed, boxUD, explosions, dropped, keysHeld, jump, stepLog,
                   trace, stepped, overlap, gain, risingEdges, frame, probe,
                   characters, colorMem, xKey>>

Next ==
    \/ LoopTest
    \/ ProcessInput
    \/ WorldStep
    \/ UpdateParticles
    \/ UpdateScorePopups
    \/ Collide
    \/ Animate
    \/ FallReset
    \/ Render
    \/ Cleanup

Spec == Init /\ [][Next]_vars

\* ------------------------------------------- the loop after a font failure
\* The same loop when init_font_rendering returned early or skipped a glyph
\* (lines 500-503, 525-529, 540-543): main does not look at the outcome
\* (line 741) and calls render_text in every iteration all the same.
InitText == InitGame /\ probe = NoProbe /\ characters \in FailedFonts

SpecText == InitText /\ [][Next]_vars

\* ------------------------------------------------------- the input alone
\* process_input called once per iteration over more bursts than the full
\* loop is run for. Of the rest of an iteration only the world step's effect
\* on the player is kept: nothing in lines 796-899 reads or writes
\* xKeyPressed, and spawn_explosion is called from process_input alone.
KeysInput == InputWith(MaxKeyBursts)

KeysStep ==
    /\ pc = After("input")
    /\ player' \in PlayerSamples
    /\ force' = 0
    /\ stepped' = player'
    /\ keysHeld' = {}
    /\ jump' = NoJump
    /\ trace' = <<>>
    /\ pc' = "input"
    /\ UNCHANGED <<shouldClose, deltaTime, box, particles, floatingTexts,
                   currentScore, wasPlayerNear, isPlayerNear, xKeyPressed,
                   boxUD, explosions, dropped, stepLog, overlap, gain,
                   risingEdges, frame, probe, characters, colorMem, heap,
                   xKey>>

NextKeys == KeysInput \/ KeysStep

\* the first loop test has passed, with no time gone by
InitKeys == InitAt("input") /\ probe = NoProbe /\ characters = LoadedFont

SpecKeys == InitKeys /\ [][NextKeys]_vars

\* ------------------------------------------------ the particle pool alone
\* spawn_explosion and update_particles called in any interleaving, as
\* process_input and the loop call them, on the pool of the initial state.
PoolDraws == { [count |-> c, a |-> 0, b |-> 2] : c \in {0, BurstSpread - 1} }
PoolDeltas == {15, 30}
PoolPositions == { SpawnPos }

notPool == <<pc, shouldClose, deltaTime, player, box, force, floatingTexts,
             currentScore, wasPlayerNear, isPlayerNear, xKeyPressed, boxUD,
             keysHeld, jump, stepLog, trace, stepped, overlap, gain,
             risingEdges, frame, probe, characters, colorMem, heap, xKey>>

\* spawn_explosion(position) (lines 418-438)
PoolSpawn ==
    /\ explosions < MaxPoolBursts
    /\ \E position \in PoolPositions, draw \in PoolDraws :
        /\ particles' = spawn_explosion(particles, position, draw)
        /\ dropped' = MinBurst + draw.count - (Len(particles') - Len(particles))
    /\ explosions' = explosions + 1
    /\ UNCHANGED notPool

\* update_particles(deltaTime) (lines 440-462)
PoolUpdate ==
    /\ \E dt \in PoolDeltas :
        particles' = update_particles(particles, dt)
    /\ UNCHANGED <<explosions, dropped>>
    /\ UNCHANGED notPool

NextPool == PoolSpawn \/ PoolUpdate

SpecPool == Init /\ [][NextPool]_vars

\* ------------------------------------------- the pool in a loop that runs
\* A few bursts, and update_particles called again and again: the loop calls
\* it once in every iteration (line 802), and here every frame delta is one
\* of PoolDeltas, a quarter or a half of a second.
LifeSpawn == explosions < MaxLifeBursts /\ PoolSpawn

NextLife == LifeSpawn \/ PoolUpdate

SpecLife == Init /\ [][NextLife]_vars /\ WF_vars(PoolUpdate)

\* ------------------------------------------------- the overlap test alone
\* Two boxes built by getAABBWithProximity from drawn centres, half-extents
\* and margins, handed to aabbOverlap in both orders; the loop's own test
\* runs on bodies placed at the same two centres.
Halves == { Meter \div 2, Meter }
Margins == { 0, Meter }
Offsets == { (k * Meter) \div 2 : k \in -9..9 }
CentresA == { Vec(0, 0), Vec(Meter \div 2, -Meter) }

ProbeInputs ==
    { [set |-> TRUE, done |-> FALSE,
       cA |-> c, hwA |-> wa, hhA |-> ha, mA |-> ma,
       cB |-> Vec(c.x + dx, c.y + dy), hwB |-> wb, hhB |-> hb, mB |-> mb] :
      c \in CentresA, dx \in Offsets, dy \in Offsets,
      wa \in Halves, ha \in Halves, ma \in Margins,
      wb \in Halves, hb \in Halves, mb \in Margins }

InitAABB ==
    /\ probe \in ProbeInputs
    /\ pc = "collide"
    /\ shouldClose = FALSE
    /\ deltaTime = 0
    /\ player = [pos |-> probe.cA, vel |-> Vec(0, 0), rot |-> 0]
    /\ box = [pos |-> probe.cB, vel |-> Vec(0, 0), rot |-> 0]
    /\ force = 0
    /\ particles = <<>>
    /\ floatingTexts = <<>>
    /\ currentScore = 0
    /\ wasPlayerNear = FALSE
    /\ isPlayerNear = FALSE
    /\ xKeyPressed = FALSE
    /\ boxUD = [color |-> BoxColorCell, isAnimating |-> FALSE,
                animationTime |-> 0, animationScale |-> 10000]
    /\ colorMem = InitColors
    /\ heap = NewHeap
    /\ explosions = 0
    /\ dropped = 0
    /\ keysHeld = {}
    /\ xKey = NoKey
    /\ jump = NoJump
    /\ stepLog = <<StepArgs(0)>>
    /\ trace = <<"input", "step", "particles", "popups">>
    /\ stepped = player
    /\ overlap = [prev |-> FALSE, cur |-> FALSE]
    /\ gain = [score |-> 0, popups |-> 0]
    /\ risingEdges = 0
    /\ frame = NoFrame
    /\ characters = LoadedFont

\* aabbOverlap(A, B) and aabbOverlap(B, A) (lines 304-316)
ApplyOverlap ==
    /\ probe.set /\ ~probe.done
    /\ LET A == getAABBWithProximity(probe.cA, probe.hwA, probe.hhA, probe.mA)
           B == getAABBWithProximity(probe.cB, probe.hwB, probe.hhB, probe.mB)
       IN  probe' = [set |-> TRUE, done |-> TRUE,
                     cA |-> probe.cA, hwA |-> probe.hwA, hhA |-> probe.hhA,
                     mA |-> probe.mA,
                     cB |-> probe.cB, hwB |-> probe.hwB, hhB |-> probe.hhB,
                     mB |-> probe.mB,
                     A |-> A, B |-> B,
                     ab |-> aabbOverlap(A, B), ba |-> aabbOverlap(B, A)]
    /\ UNCHANGED <<pc, shouldClose, deltaTime, player, box, force, particles,
                   floatingTexts, currentScore, wasPlayerNear, isPlayerNear,
                   xKeyPressed, boxUD, explosions, dropped, keysHeld, jump,
                   stepLog, trace, stepped, overlap, gain, risingEdges, frame,
                   characters, colorMem, heap, xKey>>

NextAABB == ApplyOverlap \/ Collide

SpecAABB == InitAABB /\ [][NextAABB]_vars

\* ============================================================= properties

\* C1.  The overlap test of an iteration adds exactly 10 to the score and
\* spawns exactly one popup if the test is true and the test of the previous
\* iteration was false, and adds nothing and spawns nothing otherwise;
\* wasPlayerNear is the latest test's result; so the score is 10 times the
\* number of rising edges.
C1_ScoreOncePerRisingEdge ==
    LET rising == overlap.cur /\ ~overlap.prev
    IN  /\ wasPlayerNear = overlap.cur
        /\ gain.score = (IF rising THEN 10 ELSE 0)
        /\ gain.popups = (IF rising THEN 1 ELSE 0)
        /\ currentScore = 10 * risingEdges

\* the second rising edge: overlap, a separated frame, overlap again
C1_Witness ==
    /\ pc = "animate"
    /\ risingEdges = 2
    /\ currentScore = 20
    /\ gain = [score |-> 10, popups |-> 1]
    /\ Len(floatingTexts) = 2

\* C2.  The pool never holds more than MAX_PARTICLES (100) particles.
C2_PoolBounded == Len(particles) <= 100

\* a burst met the full pool and part of it was refused
C2_Witness == Len(particles) = 100 /\ dropped > 0

\* C3.  The jump impulse is applied only with the jump key held and the
\* vertical velocity read in that iteration below 0.01 m/s in magnitude (2
\* velocity units); without the impulse (and without the reset key) the
\* vertical velocity is what was read.
C3_JumpOnlyWhenGrounded ==
    pc = "step" =>
        /\ jump.applied => ("SPACE" \in keysHeld /\ Abs(jump.read) < 2)
        /\ Abs(jump.read) >= 2 => ~jump.applied
        /\ (~jump.applied /\ "R" \notin keysHeld) => player.vel.y = jump.read

\* the key is held while the body moves at the threshold or faster
C3_Witness ==
    /\ pc = "step"
    /\ "SPACE" \in keysHeld
    /\ jump.read <= -2
    /\ ~jump.applied
    /\ player.vel.y = jump.read

\* C4.  After the fall check of an iteration, and until the next iteration
\* starts: if the step of that iteration left the player below -20 m, the
\* player is at (0, 10) with velocity (0, 0); otherwise the player is as the
\* step left it.
C4_FallReset ==
    (pc = "render" \/ (pc = "loop" /\ frame.drawn)) =>
        IF stepped.pos.y < -20 * Meter
        THEN /\ player.pos = Vec(0, 10 * Meter)
             /\ player.vel = Vec(0, 0)
        ELSE player = stepped

\* the step left the player at y = -25 and the check has run
C4_Witness ==
    /\ pc = "render"
    /\ stepped.pos.y = -25 * Meter
    /\ stepped.vel.y < 0
    /\ player.pos.y = 10 * Meter

ProbeDX == Abs(probe.cA.x - probe.cB.x)
ProbeDY == Abs(probe.cA.y - probe.cB.y)
ProbeSumW == probe.hwA + probe.hwB + probe.mA + probe.mB
ProbeSumH == probe.hhA + probe.hhB + probe.mA + probe.mB

\* C5.  aabbOverlap gives the same result in both argument orders, and is
\* true when the centres are closer than the summed half-widths plus margins
\* on X and than the summed half-heights plus margins on Y.
C5_SymmetricAndSufficient ==
    (probe.set /\ probe.done) =>
        /\ probe.ab = probe.ba
        /\ (ProbeDX < ProbeSumW /\ ProbeDY < ProbeSumH) => probe.ab

\* boxes with a margin, B to the left of A, strictly within reach
C5_Witness ==
    /\ probe.set /\ probe.done
    /\ probe.mA > 0
    /\ probe.cB.x < probe.cA.x
    /\ ProbeDX < ProbeSumW /\ ProbeDY < ProbeSumH
    /\ ProbeDX + Meter > ProbeSumW
    /\ probe.ab

\* C6.  aabbOverlap is false exactly when the boxes are strictly apart on X
\* or on Y; boxes whose edges touch overlap; and the loop's test holds
\* exactly when the player and box centres differ by at most 2.5 m on X and
\* on Y.
C6_TouchingOverlaps ==
    /\ (probe.set /\ probe.done) =>
        /\ ~probe.ab <=> (ProbeDX > ProbeSumW \/ ProbeDY > ProbeSumH)
        /\ (probe.A.maxX = probe.B.minX /\ ProbeDY <= ProbeSumH) => probe.ab
        /\ (probe.A.maxY = probe.B.minY /\ ProbeDX <= ProbeSumW) => probe.ab
    /\ pc = "animate" =>
        (isPlayerNear <=>
            /\ 2 * Abs(player.pos.x - box.pos.x) <= 5 * Meter
            /\ 2 * Abs(player.pos.y - box.pos.y) <= 5 * Meter)

\* the right edge of A is the left edge of B, and the loop's bodies are
\* exactly 2.5 m apart on X
C6_Witness ==
    /\ probe.set /\ probe.done
    /\ probe.A.maxX = probe.B.minX
    /\ probe.ab
    /\ pc = "animate"
    /\ 2 * Abs(player.pos.x - box.pos.x) = 5 * Meter
    /\ isPlayerNear

\* the (life, size) pairs of the particles update_particles has sized
Sized ==
    { <<particles[i].life, particles[i].size>> :
        i \in { k \in 1..Len(particles) : ~particles[k].fresh } }

\* C7.  Every particle in the pool has life > 0 and size > 0; among the
\* particles update_particles has sized, the size is a strictly increasing
\* function of the remaining life, it is g_particleSize at 0.5 s, and the
\* formula gives 0 at life 0, where the particle is removed.
C7_SizeFollowsLife ==
    /\ \A i \in 1..Len(particles) :
          particles[i].life > 0 /\ particles[i].size > 0
    /\ \A p, q \in Sized :
          /\ p[1] < q[1] => p[2] < q[2]
          /\ p[1] = q[1] => p[2] = q[2]
    /\ \A p \in Sized : 2 * p[1] = Second => 5 * p[2] = SizePerMeter
    /\ ParticleSize(0) = 0

\* sized particles of three different remaining lives share the pool
C7_Witness ==
    \E p, q, r \in Sized :
        /\ p[1] < q[1]
        /\ q[1] < r[1]
        /\ 2 * q[1] = Second

AfterStep == {"particles", "popups", "collide", "animate", "fallreset", "render"}

\* C8.  In every iteration the world is stepped exactly once, by 1/60 s (one
\* tick) with 8 sub-steps, whatever the frame delta: no step before the
\* step statement, exactly one after it.
C8_OneFixedStep ==
    /\ Len(stepLog) <= 1
    /\ \A i \in 1..Len(stepLog) : stepLog[i] = <<1, 8>>
    /\ pc \in {"input", "step"} => stepLog = <<>>
    /\ (pc \in AfterStep \/ (pc = "loop" /\ frame.drawn)) => Len(stepLog) = 1

\* an iteration whose frame delta is half a second has stepped by one tick
C8_Witness ==
    /\ pc = "render"
    /\ 2 * deltaTime = Second
    /\ stepLog = << <<1, 8>> >>

IsPrefix(a, b) == Len(a) <= Len(b) /\ \A i \in 1..Len(a) : a[i] = b[i]

\* C9 as stated: a frame is drawn after input, step, collision/score,
\* animation, particle update, popup update and fall check, in this order.
C9_OrderAsStated ==
    frame.drawn =>
        frame.after = <<"input", "step", "collide", "animate", "particles",
                        "popups", "fallreset">>

\* C9, amended.  The statements of an iteration run in the order input,
\* step, particle update, popup update, collision/score, animation, fall
\* check, render: the pools are updated before the collision/score of the
\* same iteration, and a frame is drawn after all seven.
C9_OrderInCode ==
    /\ IsPrefix(trace, <<"input", "step", "particles", "popups", "collide",
                         "animate", "fallreset", "render">>)
    /\ frame.drawn =>
          frame.after = <<"input", "step", "particles", "popups", "collide",
                          "animate", "fallreset">>

\* a popup spawned in an iteration of half a second is drawn in it with its
\* whole life: the popup update of that iteration ran before the spawn
C9_Witness ==
    /\ frame.drawn
    /\ 2 * deltaTime = Second
    /\ gain.popups = 1
    /\ Len(frame.texts) = 1
    /\ frame.texts[1].life = frame.texts[1].duration

PopupOk(t) == 2 * t.duration = 3 * Second /\ 0 < t.life /\ t.life <= t.duration

\* C10.  A popup is created with life = duration = 1.5 s; the popup update
\* lowers every life by the frame delta and keeps exactly the popups whose
\* life stays above 0, in order; so every popup in the pool, and every popup
\* drawn, has 0 < life <= duration.
C10_PopupLife ==
    [][ /\ \A i \in 1..Len(floatingTexts') : PopupOk(floatingTexts'[i])
        /\ frame'.drawn =>
              \A i \in 1..Len(frame'.texts) :
                  /\ 0 < frame'.texts[i].life
                  /\ frame'.texts[i].life <= frame'.texts[i].duration
        /\ pc = "popups" =>
              LET alive == SelectSeq(floatingTexts,
                                     LAMBDA t : t.life - deltaTime > 0)
              IN  /\ Len(floatingTexts') = Len(alive)
                  /\ \A i \in 1..Len(alive) :
                        floatingTexts'[i].life = alive[i].life - deltaTime
        /\ (pc = "collide" /\ Len(floatingTexts') > Len(floatingTexts)) =>
              LET t == floatingTexts'[Len(floatingTexts')]
              IN  2 * t.life = 3 * Second /\ t.duration = t.life
      ]_vars

\* a popup is drawn one second after its spawn, at a third of its life
C10_Witness ==
    /\ frame.drawn
    /\ Len(frame.texts) >= 1
    /\ 2 * frame.texts[1].life = Second
    /\ 2 * frame.texts[1].duration = 3 * Second

\* C11: render_text is guarded against a character with no entry in the
\* glyph table: every draw it issues uses a glyph the table held when the
\* frame's text rendering began (the character's own or a substitute), and
\* the table after the frame is the table before it.
C11_MissingGlyphGuarded ==
    frame.drawn =>
        /\ characters = frame.table
        /\ \A i \in 1..Len(frame.glyphDraws) :
              \E c \in DOMAIN frame.table :
                  frame.table[c].textureID = frame.glyphDraws[i].textureID

\* a frame whose texts held a character that had no glyph
C11_Witness ==
    /\ frame.drawn
    /\ \E i \in 1..Len(frame.glyphDraws) :
          frame.glyphDraws[i].ch \notin DOMAIN frame.table

\* the per-entity records, the box's own colour and the physics world
Owned == {"playerUD", "boxUD", "groundUD", "boxColor", "g_world"}

TornDown == pc \in {"cleanup", "done"}

\* C12: nothing is freed before the teardown; when main returns, each
\* UserData record, the box's own colour and the world were freed exactly once
\* and no global colour was freed; no object is ever read, written or deleted
\* after it was freed; the loop test that sees the close flag goes to the
\* teardown, and no statement of the loop runs once the teardown has started.
C12_TeardownOnce ==
    [][ /\ (pc = "loop" /\ shouldClose) => pc' = "cleanup"
        /\ TornDown => TornDown'
        /\ pc' # "done" => \A a \in Allocs : heap'.frees[a] = 0
        /\ pc' = "done" => /\ \A a \in Owned : heap'.frees[a] = 1
                           /\ \A a \in Allocs \ Owned : heap'.frees[a] = 0
        /\ heap'.stale = {} ]_vars

\* main returned after at least one frame was drawn and the box was tinted
C12_Witness ==
    /\ pc = "done"
    /\ frame.drawn
    /\ heap.frees["boxColor"] = 1
    /\ heap.frees["g_world"] = 1
    /\ currentScore > 0

\* C13: a spawn_explosion call on a pool of s particles with a drawn count n
\* in 10..15 appends exactly min(n, 100 - s) particles, all at the position
\* passed and with a life between 0.5 s and 1 s, and leaves the s particles
\* it found unchanged and in place; the n - min(n, 100 - s) others are
\* dropped: an update never adds a particle.
C13_BurstClipped ==
    [][ LET s == Len(particles)
            appended == Len(particles') - s
            n == dropped' + appended
            room == MAX_PARTICLES - s
        IN  IF explosions' = explosions + 1
            THEN /\ n \in MinBurst..(MinBurst + BurstSpread - 1)
                 /\ appended = IF n < room THEN n ELSE room
                 /\ \A i \in 1..s : particles'[i] = particles[i]
                 /\ \E position \in PoolPositions :
                      \A i \in (s + 1)..Len(particles') :
                          /\ particles'[i].position = position
                          /\ particles'[i].life >= Second \div 2
                          /\ particles'[i].life <= Second
                          /\ particles'[i].fresh
            ELSE /\ Len(particles') <= s
                 /\ \A i \in 1..Len(particles') : ~particles'[i].fresh ]_vars

\* a burst that met the cap: part of it was appended, the rest dropped
C13_Witness ==
    /\ Len(particles) = MAX_PARTICLES
    /\ particles[MAX_PARTICLES].fresh
    /\ ~particles[MAX_PARTICLES - MinBurst].fresh
    /\ dropped > 0

\* the particles whose given life exceeds the deltas applied once dt is added
Unspent(pool, dt) == SelectSeq(pool, LAMBDA p : p.born - (p.age + dt) > 0)

\* C14: every particle in the pool has life > 0, and its life is the life it
\* was given less the frame deltas applied to it; an update_particles call
\* removes exactly the particles for which that difference has become <= 0
\* and keeps the others in order, so a particle leaves in the first call that
\* spends its life; with every frame delta at least a quarter of a second,
\* once no further explosion is triggered the pool becomes empty for good.
C14_RemovedWhenSpent ==
    /\ [](\A i \in 1..Len(particles) :
             /\ particles[i].life > 0
             /\ particles[i].life = particles[i].born - particles[i].age)
    /\ [][ explosions' = explosions =>
             \E dt \in PoolDeltas :
                 LET kept == Unspent(particles, dt)
                 IN  /\ Len(particles') = Len(kept)
                     /\ \A i \in 1..Len(kept) :
                           /\ particles'[i].born = kept[i].born
                           /\ particles'[i].age = kept[i].age + dt
                           /\ particles'[i].life = kept[i].life - dt ]_vars
    /\ (<>[][explosions' = explosions]_vars) => <>[](particles = <<>>)

\* particles given a full second that have survived three updates share the
\* pool with younger ones
C14_Witness ==
    /\ \E i \in 1..Len(particles) :
          particles[i].born = Second /\ 4 * particles[i].age = 3 * Second
    /\ \E i \in 1..Len(particles) : particles[i].fresh

\* C15: the update_box_animation call of an iteration leaves isAnimating
\* equal to that iteration's overlap result; without overlap the clock is 0
\* and the scale exactly 1 (10000); with overlap the clock has grown by the
\* frame delta and the scale lies between 0.9 and 1.1; in the first iteration
\* of an overlap episode the clock therefore reads the frame delta alone.
C15_AnimationFollowsOverlap ==
    [][ pc = "animate" =>
          /\ boxUD'.isAnimating = overlap.cur
          /\ ~overlap.cur => /\ boxUD'.animationTime = 0
                             /\ boxUD'.animationScale = 10000
          /\ overlap.cur =>
               /\ boxUD'.animationTime = boxUD.animationTime + deltaTime
               /\ boxUD'.animationScale >= 9000
               /\ boxUD'.animationScale <= 11000
          /\ (overlap.cur /\ ~overlap.prev) =>
               boxUD'.animationTime = deltaTime ]_vars

\* the first animated frame of a second overlap episode, with the scale off 1
C15_Witness ==
    /\ pc = "fallreset"
    /\ risingEdges = 2
    /\ overlap.cur /\ ~overlap.prev
    /\ deltaTime > 0
    /\ boxUD.animationTime = deltaTime
    /\ boxUD.animationScale # 10000

\* C16: the box is drawn yellow exactly in the frames whose overlap test was
\* true and in the default box colour in all others, so one frame without
\* overlap restores the default; the ground is drawn in the ground colour;
\* the tint goes through the box's own vec3 only, and the global colours
\* g_boxColor, g_yellowColor and g_groundColor keep their initial values in
\* every state.
C16_TintFollowsOverlap ==
    /\ frame.drawn =>
          /\ frame.tint = (IF overlap.cur THEN <<10, 10, 0>> ELSE <<2, 5, 8>>)
          /\ frame.groundTint = <<4, 6, 3>>
    /\ colorMem["g_boxColor"] = <<2, 5, 8>>
    /\ colorMem["g_yellowColor"] = <<10, 10, 0>>
    /\ colorMem["g_groundColor"] = <<4, 6, 3>>

\* a frame drawn in the default colour right after a frame drawn yellow
C16_Witness ==
    /\ frame.drawn
    /\ overlap.prev /\ ~overlap.cur
    /\ frame.tint = <<2, 5, 8>>
    /\ colorMem["boxColor"] = <<2, 5, 8>>

\* C17: a process_input call calls spawn_explosion, once, exactly when it
\* finds the X key down and the call of the iteration before found it up (or
\* there was no call before); otherwise the pool is left as it is; so while X
\* stays down the hold has produced exactly one burst, and the next burst
\* comes only after an iteration that found the key up.
C17_ExplosionOnKeyEdge ==
    [][ pc = "input" =>
          /\ explosions' \in {explosions, explosions + 1}
          /\ explosions' = explosions + 1 <=> ("X" \in keysHeld' /\ ~xKey.down)
          /\ explosions' = explosions =>
               (particles' = particles /\ dropped' = dropped)
          /\ xKey'.down = ("X" \in keysHeld')
          /\ xKey'.bursts = IF xKey'.down THEN 1 ELSE 0 ]_vars

\* X held over two iterations in its second hold: two bursts in all, one of
\* them in this hold
C17_Witness ==
    /\ pc = After("input")
    /\ "X" \in keysHeld
    /\ xKey.again
    /\ xKey.bursts = 1
    /\ explosions = 2
    /\ Len(particles) = 2 * (MinBurst + BurstSpread - 1)

=========================================================================
